---- MODULE Spec2Model ----
(***************************************************************************)
(* Kraken request signing (kraken.rs: private, balance, add_order) and the *)
(* lambda handler that drives it (main.rs: my_handler).                    *)
(*                                                                         *)
(* Strings are sequences of one-character strings, so that the body that   *)
(* is hashed and the body that is sent are compared byte by byte.  The     *)
(* hash functions are symbolic, collision-free terms: a digest is a tuple  *)
(* naming the algorithm and its input.                                     *)
(***************************************************************************)
EXTENDS Integers, Sequences, FiniteSets, TLC

\* ------------------------------------------------------------------ bounds
\* concurrent callers of the kraken module
NumTasks == 2
\* API calls issued in one behaviour of the client specification
MaxCalls == 2
\* hasher states (RandomState) a new HashMap can draw: 0..MaxSeed
MaxSeed == 1
\* the wall clock runs over EpochSecs..EpochSecs+MaxSecs seconds
MaxSecs == 1
EpochSecs == 9

\* ------------------------------------------------------- program constants
\* {:09}: the sub-second part is zero-padded to nine digits
NonceFracWidth == 9
\* subsec_nanos() is below one second
NanosPerSec == 1000000000

Tasks == 1..NumTasks

\* ----------------------------------------------------------------- strings
K_nonce == <<"n", "o", "n", "c", "e">>
K_pair == <<"p", "a", "i", "r">>
K_type == <<"t", "y", "p", "e">>
K_ordertype == <<"o", "r", "d", "e", "r", "t", "y", "p", "e">>
K_price == <<"p", "r", "i", "c", "e">>
K_price2 == <<"p", "r", "i", "c", "e", "2">>
K_volume == <<"v", "o", "l", "u", "m", "e">>
K_leverage == <<"l", "e", "v", "e", "r", "a", "g", "e">>
K_oflags == <<"o", "f", "l", "a", "g", "s">>
K_userref == <<"u", "s", "e", "r", "r", "e", "f">>
K_starttm == <<"s", "t", "a", "r", "t", "t", "m">>
K_expiretm == <<"e", "x", "p", "i", "r", "e", "t", "m">>
K_validate == <<"v", "a", "l", "i", "d", "a", "t", "e">>
S_PrivatePrefix == <<"/", "0", "/", "p", "r", "i", "v", "a", "t", "e", "/">>
S_Host ==
  <<"h", "t", "t", "p", "s", ":", "/", "/", "a", "p", "i", ".", "k", "r", "a",
    "k", "e", "n", ".", "c", "o", "m">>
S_Balance == <<"B", "a", "l", "a", "n", "c", "e">>
S_AddOrder == <<"A", "d", "d", "O", "r", "d", "e", "r">>
S_SOLUSD == <<"S", "O", "L", "U", "S", "D">>
S_DOTUSD == <<"D", "O", "T", "U", "S", "D">>
S_154 == <<"1", "5", "4", ".", "0", "0">>

\* Option<T>: None is the empty sequence, Some(x) the sequence holding x
None == <<>>
Some(x) == <<x>>
IsSome(o) == o # <<>>
Unwrap(o) == o[1]

\* ------------------------------------------------------- Display / format!
OrderTypeDisplay(ot) ==
  CASE ot = "Market" -> <<"m", "a", "r", "k", "e", "t">>
    [] ot = "Limit" -> <<"l", "i", "m", "i", "t">>
    [] ot = "StopLoss" -> <<"s", "t", "o", "p", "-", "l", "o", "s", "s">>
    [] ot = "TakeProfit" -> <<"t", "a", "k", "e", "-", "p", "r", "o", "f", "i", "t">>
    [] ot = "StopLossLimit" ->
         <<"s", "t", "o", "p", "-", "l", "o", "s", "s", "-", "l", "i", "m", "i", "t">>
    [] ot = "TakeProfitLimit" ->
         <<"t", "a", "k", "e", "-", "p", "r", "o", "f", "i", "t", "-", "l", "i", "m", "i", "t">>
    [] ot = "SettlePosition" ->
         <<"s", "e", "t", "t", "l", "e", "-", "p", "o", "s", "i", "t", "i", "o", "n">>

OrderDirectionDisplay(d) ==
  CASE d = "Buy" -> <<"b", "u", "y">>
    [] d = "Sell" -> <<"s", "e", "l", "l">>

Digits == <<"0", "1", "2", "3", "4", "5", "6", "7", "8", "9">>

RECURSIVE NatDisplay(_)
\* format!("{}", n) of an unsigned integer
NatDisplay(n) ==
  IF n < 10 THEN <<Digits[n + 1]>>
  ELSE NatDisplay(n \div 10) \o <<Digits[(n % 10) + 1]>>

\* format!("{}", n) of an i64
IntDisplay(n) == IF n < 0 THEN <<"-">> \o NatDisplay(0 - n) ELSE NatDisplay(n)

RECURSIVE Zeros(_)
Zeros(n) == IF n <= 0 THEN <<>> ELSE <<"0">> \o Zeros(n - 1)

\* format!("{:0w}", n): zero-padded to at least w digits
ZeroPad(n, w) == Zeros(w - Len(NatDisplay(n))) \o NatDisplay(n)

\* format!("{}{:09}", timestamp.as_secs(), timestamp.subsec_nanos())
NonceFormat(secs, nanos) == NatDisplay(secs) \o ZeroPad(nanos, NonceFracWidth)

\* ------------------------------------------------- HashMap<String, String>
\* A map is the sequence of its entries in insertion order (keys unique)
\* together with the state of its hasher; the hasher fixes the iteration
\* order.
HasKey(entries, k) == \E i \in 1..Len(entries) : entries[i].k = k

Lookup(entries, k) ==
  entries[CHOOSE i \in 1..Len(entries) : entries[i].k = k].v

\* HashMap::insert: replaces the value of a key already present
Insert(entries, k, v) ==
  IF HasKey(entries, k)
  THEN [i \in 1..Len(entries) |->
          IF entries[i].k = k THEN [k |-> k, v |-> v] ELSE entries[i]]
  ELSE Append(entries, [k |-> k, v |-> v])

EntrySet(entries) == {entries[i] : i \in 1..Len(entries)}

\* HashMap::iter: a permutation of the entries decided by the hasher state
\* of this map; the same unmodified map iterates the same way every time.
\* Hasher state s yields the insertion order rotated by s.
Iter(entries, seed) ==
  LET n == Len(entries)
      r == IF n = 0 THEN 0 ELSE seed % n
  IN  SubSeq(entries, r + 1, n) \o SubSeq(entries, 1, r)

\* ------------------------------------------------------------ body encoding
RECURSIVE FoldPairs(_)
\* params.iter().fold(String::new(), |data, item| data + k + "=" + v + "&")
FoldPairs(items) ==
  IF items = <<>> THEN <<>>
  ELSE FoldPairs(SubSeq(items, 1, Len(items) - 1))
         \o items[Len(items)].k \o <<"=">> \o items[Len(items)].v \o <<"&">>

\* String::pop: removes the last character, if there is one
Pop(s) == IF s = <<>> THEN s ELSE SubSeq(s, 1, Len(s) - 1)

\* the fold without the pop: the trailing separator is kept
EncodeBodyNoPop(entries, seed) == FoldPairs(Iter(entries, seed))

\* the body that is hashed
EncodeBody(entries, seed) == Pop(FoldPairs(Iter(entries, seed)))

\* form_urlencoded::byte_serialize: what .form(params) does to each key and
\* value.  Alphanumerics and * - . _ pass, a space becomes +, every other
\* byte becomes %XX.
Unreserved ==
  {"A", "B", "C", "D", "E", "F", "G", "H", "I", "J", "K", "L", "M", "N", "O",
   "P", "Q", "R", "S", "T", "U", "V", "W", "X", "Y", "Z", "a", "b", "c", "d",
   "e", "f", "g", "h", "i", "j", "k", "l", "m", "n", "o", "p", "q", "r", "s",
   "t", "u", "v", "w", "x", "y", "z", "0", "1", "2", "3", "4", "5", "6", "7",
   "8", "9", "*", "-", ".", "_"}

ByteSerialize(c) ==
  CASE c \in Unreserved -> <<c>>
    [] c = " " -> <<"+">>
    [] c = "," -> <<"%", "2", "C">>
    [] c = "+" -> <<"%", "2", "B">>
    [] c = "&" -> <<"%", "2", "6">>
    [] c = "=" -> <<"%", "3", "D">>
    [] c = "/" -> <<"%", "2", "F">>
    [] c = ":" -> <<"%", "3", "A">>

RECURSIVE FormEscape(_)
FormEscape(s) ==
  IF s = <<>> THEN <<>> ELSE ByteSerialize(s[1]) \o FormEscape(Tail(s))

RECURSIVE FormPairs(_)
FormPairs(items) ==
  IF items = <<>> THEN <<>>
  ELSE FormEscape(items[1].k) \o <<"=">> \o FormEscape(items[1].v)
         \o (IF Len(items) > 1 THEN <<"&">> ELSE <<>>) \o FormPairs(Tail(items))

\* RequestBuilder::form(params): serde_urlencoded over the map's iteration
FormBody(entries, seed) == FormPairs(Iter(entries, seed))

\* ------------------------------------------------------------------ base64
B64Alphabet ==
  <<"A", "B", "C", "D", "E", "F", "G", "H", "I", "J", "K", "L", "M", "N", "O", "P",
    "Q", "R", "S", "T", "U", "V", "W", "X", "Y", "Z", "a", "b", "c", "d", "e", "f",
    "g", "h", "i", "j", "k", "l", "m", "n", "o", "p", "q", "r", "s", "t", "u", "v",
    "w", "x", "y", "z", "0", "1", "2", "3", "4", "5", "6", "7", "8", "9", "+", "/">>

IsB64Symbol(c) == \E i \in 1..Len(B64Alphabet) : B64Alphabet[i] = c

B64Value(c) == (CHOOSE i \in 1..Len(B64Alphabet) : B64Alphabet[i] = c) - 1

\* number of padding characters closing the input
B64Padding(s) ==
  IF Len(s) >= 2 /\ s[Len(s)] = "=" /\ s[Len(s) - 1] = "=" THEN 2
  ELSE IF Len(s) >= 1 /\ s[Len(s)] = "=" THEN 1 ELSE 0

\* whether base64::decode returns Ok: whole quanta of four symbols, padding
\* only at the end, no stray bits in the last symbol
B64Valid(s) ==
  LET p == B64Padding(s)
      n == Len(s) - p
  IN  /\ Len(s) % 4 = 0
      /\ \A i \in 1..n : IsB64Symbol(s[i])
      /\ p = 2 => B64Value(s[n]) % 16 = 0
      /\ p = 1 => B64Value(s[n]) % 4 = 0

RECURSIVE B64Quanta(_)
\* the bytes of whole four-symbol quanta: 4 x 6 bits -> 3 x 8 bits
B64Quanta(s) ==
  IF Len(s) < 4 THEN <<>>
  ELSE LET w == B64Value(s[1]) * 262144 + B64Value(s[2]) * 4096
                  + B64Value(s[3]) * 64 + B64Value(s[4])
       IN  <<w \div 65536, (w \div 256) % 256, w % 256>>
             \o B64Quanta(SubSeq(s, 5, Len(s)))

\* base64::decode(s), for an s that is B64Valid
B64Decode(s) ==
  LET p == B64Padding(s)
      filled == [i \in 1..Len(s) |-> IF s[i] = "=" THEN "A" ELSE s[i]]
      bytes == B64Quanta(filled)
  IN  SubSeq(bytes, 1, Len(bytes) - p)

\* base64::encode of a MAC: a term, decoded by nothing in this program
B64Encode(mac) == <<"base64", mac>>

\* ------------------------------------------------------------------ hashing
\* a string as the bytes fed to a hasher
Bytes(s) == [i \in 1..Len(s) |-> <<s[i]>>]

\* Sha256::result over everything that was input
Sha256(msg) == <<"sha256", msg>>

\* Hmac<Sha512>::result over everything that was input
HmacSha512(key, msg) == <<"hmac-sha512", key, msg>>

\* the signature with the two hasher inputs in the wrong order
ApiSignBodyFirst(key, path, nonce, body) ==
  B64Encode(HmacSha512(key, Bytes(path) \o <<Sha256(Bytes(body) \o Bytes(nonce))>>))

\* body_hasher.input(nonce); body_hasher.input(body); hmac.input(path);
\* hmac.input(out); base64::encode(hmac.result().code())
ApiSign(key, path, nonce, body) ==
  LET body_hasher == Bytes(nonce) \o Bytes(body)
      out == Sha256(body_hasher)
      hmac == Bytes(path) \o <<out>>
  IN  B64Encode(HmacSha512(key, hmac))

\* -------------------------------------------------------------------- state
VARIABLES
  clock,     \* the system clock: time since UNIX_EPOCH, [secs, nanos]
  account,   \* Account {key, secret}
  pc,        \* where each task stands in private()
  fr,        \* each task's call frame: the locals of add_order/balance/private
  wire,      \* the requests that are with the transport
  reads,     \* clock reads made for a nonce
  prev,      \* per task, the nonce of its latest call that returned
  calls,     \* API calls started by the client tasks
  issued,    \* my_handler: the calls it has made, in order
  event,     \* ApiGatewayProxyRequest.path of the lambda event
  hpc,       \* where my_handler stands
  hidx,      \* my_handler: index into tradable_asset_pair
  okCalls,   \* my_handler: calls it went on from that had returned Ok
  resp       \* my_handler: the ApiGatewayProxyResponse status_code, once built

vars ==
  <<clock, account, pc, fr, wire, reads, prev, calls, issued, event, hpc, hidx,
    okCalls, resp>>

\* the task that runs my_handler
HandlerTask == CHOOSE t \in Tasks : \A u \in Tasks : t <= u

\* --------------------------------------------------------------- the inputs
ApiKey == <<"k", "e", "y">>

\* account.secret: base64 of "ABC", base64 of "AB" (padded), and a string
\* that is no base64
Secrets ==
  { <<"Q", "U", "J", "D">>, <<"Q", "U", "I", "=">>, <<"Q", "U", "!", "D">> }

NoOrder ==
  [pair |-> <<>>, order_direction |-> "Buy", order_type |-> "Market",
   price |-> None, price2 |-> None, volume |-> None, leverage |-> None,
   oflags |-> None, starttm |-> None, expiretm |-> None, userref |-> None,
   validate |-> None]

\* the NewOrder my_handler builds for one asset pair
HandlerOrder(asset_pair) ==
  [NoOrder EXCEPT !.pair = asset_pair, !.order_direction = "Buy",
                  !.order_type = "Limit", !.price = Some(S_154),
                  !.volume = Some(<<"2">>), !.validate = Some(TRUE)]

tradable_asset_pair == <<S_SOLUSD, S_DOTUSD>>

\* the NewOrder values add_order is called with in the client specifications:
\* the order my_handler places, and one that sets every other field
Orders ==
  { HandlerOrder(S_SOLUSD),
    [NoOrder EXCEPT !.pair = S_DOTUSD, !.order_direction = "Sell",
                    !.order_type = "StopLossLimit",
                    !.price2 = Some(<<"8">>), !.leverage = Some(<<"2">>),
                    !.oflags = Some(<<"f", "c", "i", "b", ",", "p", "o", "s", "t">>),
                    !.userref = Some(<<"7">>), !.starttm = Some(0),
                    !.expiretm = Some(60), !.validate = Some(FALSE)] }

\* --------------------------------------------------------------- add_order
InsertSome(entries, k, o) == IF IsSome(o) THEN Insert(entries, k, Unwrap(o)) ELSE entries

\* the params map add_order fills before it calls private
AddOrderParams(order) ==
  LET p1 == Insert(<<>>, K_pair, order.pair)
      p2 == Insert(p1, K_type, OrderDirectionDisplay(order.order_direction))
      p3 == Insert(p2, K_ordertype, OrderTypeDisplay(order.order_type))
      p4 == InsertSome(p3, K_price, order.price)
      p5 == InsertSome(p4, K_price2, order.price2)
      p6 == InsertSome(p5, K_volume, order.volume)
      p7 == InsertSome(p6, K_leverage, order.leverage)
      p8 == InsertSome(p7, K_oflags, order.oflags)
      p9 == InsertSome(p8, K_userref, order.userref)
      p10 == IF IsSome(order.starttm)
             THEN Insert(p9, K_starttm, IntDisplay(Unwrap(order.starttm))) ELSE p9
      p11 == IF IsSome(order.expiretm)
             THEN Insert(p10, K_expiretm, IntDisplay(Unwrap(order.expiretm))) ELSE p10
  IN  IF IsSome(order.validate) THEN Insert(p11, K_validate, <<"1">>) ELSE p11

\* ----------------------------------------------------------------- frames
NoFrame ==
  [caller |-> "none", method |-> <<>>, params |-> <<>>, seed |-> 0, arg |-> <<>>,
   path |-> <<>>, url |-> <<>>, nonce |-> <<>>, seq |-> 0, body |-> <<>>,
   secret |-> None, sign |-> None, nsent |-> 0, decodes |-> 0, ret |-> "none"]

\* the frame of a call of balance or add_order at the point it calls private
NewFrame(caller, method, params, seed) ==
  [NoFrame EXCEPT !.caller = caller, !.method = method, !.params = params,
                  !.seed = seed, !.arg = params]

Seeds == 0..MaxSeed

\* ------------------------------------------------------------------ private
\* the nonce entered under a misspelt key
WithNonceWrongKey(params, nonce) == Insert(params, <<"N">> \o Tail(K_nonce), nonce)

\* params.insert("nonce".to_owned(), nonce.clone())
WithNonce(params, nonce) == Insert(params, K_nonce, nonce)

\* path, url, the clock read, the nonce and its insertion into params
PrivateNonce(t) ==
  /\ pc[t] = "private"
  /\ LET path == S_PrivatePrefix \o fr[t].method
         url == S_Host \o path
         nonce == NonceFormat(clock.secs, clock.nanos)
     IN  fr' = [fr EXCEPT ![t].path = path, ![t].url = url, ![t].nonce = nonce,
                          ![t].seq = reads + 1,
                          ![t].params = WithNonce(fr[t].params, nonce)]
  /\ reads' = reads + 1
  /\ pc' = [pc EXCEPT ![t] = "sign"]
  /\ UNCHANGED <<clock, account, wire, prev, calls, issued, event, hpc, hidx, okCalls,
                 resp>>

\* a decode failure taken for an empty key
DecodeSecretLenient(secret) == IF B64Valid(secret) THEN Some(B64Decode(secret)) ELSE Some(<<>>)

\* base64::decode(&account.secret): Some(bytes), or None for Err
DecodeSecret(secret) == IF B64Valid(secret) THEN Some(B64Decode(secret)) ELSE None

\* the body (fold and pop), the decoded secret (.unwrap() panics on Err) and
\* the signature: SHA256 of nonce and body, HMAC-SHA512 over path and digest
PrivateSign(t) ==
  /\ pc[t] = "sign"
  /\ LET body == EncodeBody(fr[t].params, fr[t].seed)
         secret == DecodeSecret(account.secret)
     IN  IF IsSome(secret)
         THEN /\ fr' = [fr EXCEPT ![t].body = body, ![t].secret = secret,
                                  ![t].decodes = @ + 1,
                                  ![t].sign = Some(ApiSign(Unwrap(secret), fr[t].path,
                                                           fr[t].nonce, body))]
              /\ pc' = [pc EXCEPT ![t] = "send"]
         ELSE /\ fr' = [fr EXCEPT ![t].body = body, ![t].decodes = @ + 1,
                                  ![t].ret = "Panic"]
              /\ pc' = [pc EXCEPT ![t] = "panicked"]
  /\ UNCHANGED <<clock, account, wire, reads, prev, calls, issued, event, hpc, hidx,
                 okCalls, resp>>

\* Client::new().post(url).header(..).header(..).form(params).send(): the
\* request is with the transport until its response arrives
PrivateSend(t) ==
  /\ pc[t] = "send"
  /\ wire' = Append(wire,
       [task |-> t, url |-> fr[t].url, api_key |-> account.key,
        api_sign |-> Unwrap(fr[t].sign),
        body |-> FormBody(fr[t].params, fr[t].seed)])
  /\ fr' = [fr EXCEPT ![t].nsent = @ + 1]
  /\ pc' = [pc EXCEPT ![t] = "await"]
  /\ UNCHANGED <<clock, account, reads, prev, calls, issued, event, hpc, hidx, okCalls,
                 resp>>

\* what the transport and the API can answer
Outcomes == {"send_err", "status_err", "json_err", "api_err", "no_result", "ok"}

TransportFailed(outcome) == outcome \in {"send_err", "status_err", "json_err"}

\* a failed send that is sent again
AfterOutcomeRetry(outcome) == IF TransportFailed(outcome) THEN "send" ELSE "ret"

\* send().await?, error_for_status()?, json().await?: private returns
AfterOutcome(outcome) == "ret"

\* balance/add_order: map_err, and_then on response.error, result.unwrap()
CallResult(outcome) ==
  CASE TransportFailed(outcome) -> "Err"
    [] outcome = "api_err" -> "Err"
    [] outcome = "no_result" -> "Panic"
    [] outcome = "ok" -> "Ok"

\* the wire without the request of task t
Answered(w, t) == SelectSeq(w, LAMBDA r : r.task # t)

\* the response arrives; private returns and its caller maps the result
Respond(t) ==
  /\ pc[t] = "await"
  /\ \E outcome \in Outcomes :
       IF AfterOutcome(outcome) = "ret"
       THEN /\ fr' = [fr EXCEPT ![t].ret = CallResult(outcome)]
            /\ pc' = [pc EXCEPT ![t] =
                        IF CallResult(outcome) = "Panic" THEN "panicked" ELSE "ret"]
       ELSE /\ fr' = fr
            /\ pc' = [pc EXCEPT ![t] = AfterOutcome(outcome)]
  /\ wire' = Answered(wire, t)
  /\ UNCHANGED <<clock, account, reads, prev, calls, issued, event, hpc, hidx, okCalls,
                 resp>>

Private(t) ==
  \/ PrivateNonce(t)
  \/ PrivateSign(t)
  \/ PrivateSend(t)
  \/ Respond(t)

\* -------------------------------------------------------------------- clock
ClockValues ==
  {[secs |-> s, nanos |-> n] : s \in EpochSecs..(EpochSecs + MaxSecs),
                               n \in {0, NanosPerSec - 1}}

ClockLess(a, b) == a.secs < b.secs \/ (a.secs = b.secs /\ a.nanos < b.nanos)

\* time passes
ClockAdvance ==
  /\ \E c \in ClockValues :
       /\ ClockLess(clock, c)
       /\ \A d \in ClockValues : ~(ClockLess(clock, d) /\ ClockLess(d, c))
       /\ clock' = c
  /\ UNCHANGED <<account, pc, fr, wire, reads, prev, calls, issued, event, hpc, hidx,
                 okCalls, resp>>

\* the wall clock is set back (SystemTime is not monotonic)
ClockSetBack ==
  /\ \E c \in ClockValues :
       /\ ClockLess(c, clock)
       /\ \A d \in ClockValues : ~(ClockLess(c, d) /\ ClockLess(d, clock))
       /\ clock' = c
  /\ UNCHANGED <<account, pc, fr, wire, reads, prev, calls, issued, event, hpc, hidx,
                 okCalls, resp>>

\* ------------------------------------------------- callers of the module
\* a task calls add_order(account, order)
ClientAddOrder(t) ==
  /\ hpc = "off"
  /\ pc[t] = "idle"
  /\ calls < MaxCalls
  /\ \E order \in Orders, seed \in Seeds :
       fr' = [fr EXCEPT ![t] = NewFrame("add_order", S_AddOrder, AddOrderParams(order), seed)]
  /\ pc' = [pc EXCEPT ![t] = "private"]
  /\ calls' = calls + 1
  /\ UNCHANGED <<clock, account, wire, reads, prev, issued, event, hpc, hidx, okCalls,
                 resp>>

\* a task calls balance(account)
ClientBalance(t) ==
  /\ hpc = "off"
  /\ pc[t] = "idle"
  /\ calls < MaxCalls
  /\ \E seed \in Seeds :
       fr' = [fr EXCEPT ![t] = NewFrame("balance", S_Balance, <<>>, seed)]
  /\ pc' = [pc EXCEPT ![t] = "private"]
  /\ calls' = calls + 1
  /\ UNCHANGED <<clock, account, wire, reads, prev, issued, event, hpc, hidx, okCalls,
                 resp>>

\* the call has returned Ok or Err; its locals are dropped
ClientReturn(t) ==
  /\ hpc = "off"
  /\ pc[t] = "ret"
  /\ fr' = [fr EXCEPT ![t] = NoFrame]
  /\ prev' = [prev EXCEPT ![t] = fr[t].nonce]
  /\ pc' = [pc EXCEPT ![t] = "idle"]
  /\ UNCHANGED <<clock, account, wire, reads, calls, issued, event, hpc, hidx, okCalls,
                 resp>>

\* ---------------------------------------------------------------- my_handler
\* .expect() that lets an Err pass
ExpectLenient(ret) == ret \in {"Ok", "Err"}

\* .expect("order not executed"), .expect("could not get balance"): whether
\* the handler goes on
Expect(ret) == ret = "Ok"

\* event.path.unwrap() and the Account
HandlerStart ==
  /\ hpc = "start"
  /\ IF IsSome(event)
     THEN /\ hpc' = "loop"
          /\ hidx' = 1
     ELSE /\ hpc' = "panicked"
          /\ hidx' = hidx
  /\ UNCHANGED <<clock, account, pc, fr, wire, reads, prev, calls, issued, event,
                 okCalls, resp>>

\* the loop body up to the call of add_order
HandlerAddOrder ==
  /\ hpc = "loop"
  /\ hidx <= Len(tradable_asset_pair)
  /\ pc[HandlerTask] = "idle"
  /\ \E seed \in Seeds :
       fr' = [fr EXCEPT ![HandlerTask] =
                NewFrame("add_order", S_AddOrder,
                         AddOrderParams(HandlerOrder(tradable_asset_pair[hidx])), seed)]
  /\ pc' = [pc EXCEPT ![HandlerTask] = "private"]
  /\ issued' = Append(issued, <<S_AddOrder, tradable_asset_pair[hidx]>>)
  /\ hpc' = "order"
  /\ UNCHANGED <<clock, account, wire, reads, prev, calls, event, hidx, okCalls, resp>>

\* add_order has returned or panicked: .expect(), println!, next pair
HandlerOrderDone ==
  /\ hpc = "order"
  /\ pc[HandlerTask] \in {"ret", "panicked"}
  /\ IF pc[HandlerTask] = "ret" /\ Expect(fr[HandlerTask].ret)
     THEN /\ okCalls' = okCalls + (IF fr[HandlerTask].ret = "Ok" THEN 1 ELSE 0)
          /\ hidx' = hidx + 1
          /\ hpc' = IF hidx + 1 <= Len(tradable_asset_pair) THEN "loop" ELSE "balance"
          /\ pc' = [pc EXCEPT ![HandlerTask] = "idle"]
          /\ fr' = [fr EXCEPT ![HandlerTask] = NoFrame]
          /\ prev' = [prev EXCEPT ![HandlerTask] = fr[HandlerTask].nonce]
     ELSE /\ hpc' = "panicked"
          /\ UNCHANGED <<okCalls, hidx, pc, fr, prev>>
  /\ UNCHANGED <<clock, account, wire, reads, calls, issued, event, resp>>

\* the call of balance
HandlerBalance ==
  /\ hpc = "balance"
  /\ pc[HandlerTask] = "idle"
  /\ \E seed \in Seeds :
       fr' = [fr EXCEPT ![HandlerTask] =
                NewFrame("balance", S_Balance, <<>>, seed)]
  /\ pc' = [pc EXCEPT ![HandlerTask] = "private"]
  /\ issued' = Append(issued, <<S_Balance, <<>>>>)
  /\ hpc' = "balance_wait"
  /\ UNCHANGED <<clock, account, wire, reads, prev, calls, event, hidx, okCalls, resp>>

\* balance has returned or panicked: .expect(), the 200 response
HandlerBalanceDone ==
  /\ hpc = "balance_wait"
  /\ pc[HandlerTask] \in {"ret", "panicked"}
  /\ IF pc[HandlerTask] = "ret" /\ Expect(fr[HandlerTask].ret)
     THEN /\ okCalls' = okCalls + (IF fr[HandlerTask].ret = "Ok" THEN 1 ELSE 0)
          /\ resp' = 200
          /\ hpc' = "done"
          /\ pc' = [pc EXCEPT ![HandlerTask] = "idle"]
          /\ fr' = [fr EXCEPT ![HandlerTask] = NoFrame]
          /\ prev' = [prev EXCEPT ![HandlerTask] = fr[HandlerTask].nonce]
     ELSE /\ hpc' = "panicked"
          /\ UNCHANGED <<okCalls, resp, pc, fr, prev>>
  /\ UNCHANGED <<clock, account, wire, reads, calls, issued, event, hidx>>

\* -------------------------------------------------------- specifications
\* what every specification starts from
Start ==
  /\ clock = [secs |-> EpochSecs, nanos |-> 0]
  /\ account \in {[key |-> ApiKey, secret |-> s] : s \in Secrets}
  /\ fr = [t \in Tasks |-> NoFrame]
  /\ wire = <<>>
  /\ reads = 0
  /\ prev = [t \in Tasks |-> <<>>]
  /\ calls = 0
  /\ issued = <<>>
  /\ hidx = 0
  /\ okCalls = 0
  /\ resp = 0

\* one process calls the module, one call after the other
Init ==
  /\ Start
  /\ pc = [t \in Tasks |-> IF t = HandlerTask THEN "idle" ELSE "unspawned"]
  /\ event = None
  /\ hpc = "off"

\* several tasks call the module against the same Account
InitConcurrent ==
  /\ Start
  /\ pc = [t \in Tasks |-> "idle"]
  /\ event = None
  /\ hpc = "off"

\* the lambda runtime invokes my_handler with one event
InitHandler ==
  /\ Start
  /\ pc = [t \in Tasks |-> IF t = HandlerTask THEN "idle" ELSE "unspawned"]
  /\ event \in {None, Some(<<"/">>)}
  /\ hpc = "start"

Next ==
  \/ \E t \in Tasks : ClientAddOrder(t)
  \/ \E t \in Tasks : ClientBalance(t)
  \/ \E t \in Tasks : ClientReturn(t)
  \/ \E t \in Tasks : Private(t)
  \/ ClockAdvance
  \/ ClockSetBack

NextHandler ==
  \/ HandlerStart
  \/ HandlerAddOrder
  \/ HandlerOrderDone
  \/ HandlerBalance
  \/ HandlerBalanceDone
  \/ \E t \in Tasks : Private(t)
  \/ ClockAdvance
  \/ ClockSetBack

Spec == Init /\ [][Next]_vars

SpecConcurrent == InitConcurrent /\ [][Next]_vars

SpecHandler == InitHandler /\ [][NextHandler]_vars

\* ------------------------------------------------------------ properties
\* tasks whose current call has read the clock and not yet returned
HasNonce(t) == pc[t] \in {"sign", "send", "await"}

\* tasks whose current call has encoded its body
HasBody(t) ==
  \/ pc[t] \in {"send", "await", "ret"}
  \/ pc[t] = "panicked" /\ fr[t].decodes > 0

RECURSIVE StripZeros(_)
StripZeros(s) == IF Len(s) > 1 /\ s[1] = "0" THEN StripZeros(Tail(s)) ELSE s

DigitValue(c) == CHOOSE d \in 0..9 : Digits[d + 1] = c

RECURSIVE LexLess(_, _)
LexLess(a, b) ==
  /\ a # <<>>
  /\ \/ DigitValue(a[1]) < DigitValue(b[1])
     \/ a[1] = b[1] /\ LexLess(Tail(a), Tail(b))

\* a < b for decimal strings read as integers of any size
DecLess(a, b) ==
  LET x == StripZeros(a)
      y == StripZeros(b)
  IN  Len(x) < Len(y) \/ (Len(x) = Len(y) /\ LexLess(x, y))

\* s holds sub as a contiguous part
Contains(s, sub) ==
  \E i \in 1..(Len(s) - Len(sub) + 1) : SubSeq(s, i, i + Len(sub) - 1) = sub

RECURSIVE JoinPairs(_)
\* k1=v1&k2=v2&...&kn=vn: a separator before every pair but the first
JoinPairs(items) ==
  IF items = <<>> THEN <<>>
  ELSE IF Len(items) = 1 THEN items[1].k \o <<"=">> \o items[1].v
  ELSE items[1].k \o <<"=">> \o items[1].v \o <<"&">> \o JoinPairs(Tail(items))

RECURSIVE PairChars(_)
\* the characters of the pairs alone: key, "=", value
PairChars(items) ==
  IF items = <<>> THEN 0
  ELSE Len(items[1].k) + 1 + Len(items[1].v) + PairChars(Tail(items))

\* the requests of task t that are with the transport
OnWire(t) == SelectSeq(wire, LAMBDA r : r.task = t)

\* C1: the nonces of consecutive calls of one process are strictly
\* increasing as integers, also when the clock stands still or goes back
\* between the calls.  (The code takes the nonce from the clock alone.)
C1_NoncesIncrease ==
  \A t \in Tasks :
    (HasNonce(t) /\ prev[t] # <<>>) => DecLess(prev[t], fr[t].nonce)

\* C2: the body handed to the transport is, byte for byte, the body that was
\* hashed, so hashing the sent body after the nonce reproduces API-Sign.
\* (The code hashes the raw pairs and sends them form-urlencoded.)
C2_SentBodyIsHashedBody ==
  \A i \in 1..Len(wire) :
    LET r == wire[i]
        f == fr[r.task]
    IN  /\ r.body = f.body
        /\ r.api_sign = ApiSign(Unwrap(f.secret), f.path, f.nonce, r.body)

\* C3: of two calls in flight at once against the same Account, the one
\* that read the clock later has the greater nonce; no two share a nonce.
C3_ConcurrentNoncesIncrease ==
  \A t, u \in Tasks :
    (HasNonce(t) /\ HasNonce(u) /\ fr[t].seq < fr[u].seq)
      => DecLess(fr[t].nonce, fr[u].nonce)

\* C4: maps holding the same key/value pairs encode to the same body,
\* whichever map instance holds them.
C4_EncodingDependsOnEntriesOnly ==
  \A t, u \in Tasks :
    (pc[t] = "send" /\ pc[u] = "send"
       /\ EntrySet(fr[t].params) = EntrySet(fr[u].params))
      => fr[t].body = fr[u].body

\* C5: API-Sign is base64(HMAC-SHA512(decoded secret, path ++ SHA256(nonce ++
\* body))) with path = "/0/private/" ++ method, body the encoded params, and
\* the nonce hashed in front is the nonce field of that body.
C5_SignatureConstruction ==
  \A i \in 1..Len(wire) :
    LET r == wire[i]
        f == fr[r.task]
        path == S_PrivatePrefix \o f.method
        inner == Sha256(Bytes(f.nonce) \o Bytes(f.body))
    IN  /\ r.api_sign =
             B64Encode(HmacSha512(B64Decode(account.secret), Bytes(path) \o <<inner>>))
        /\ r.url = S_Host \o path
        /\ Lookup(f.params, K_nonce) = f.nonce
        /\ Contains(f.body, K_nonce \o <<"=">> \o f.nonce)

C5_Witness ==
  \E i \in 1..Len(wire) :
    /\ fr[wire[i].task].caller = "add_order"
    /\ B64Padding(account.secret) > 0

\* C6 as claimed: once private has returned, the caller's map holds exactly
\* the entries it held when private was called.
C6_ParamsUnchanged ==
  \A t \in Tasks :
    pc[t] = "ret" => EntrySet(fr[t].params) = EntrySet(fr[t].arg)

\* C6 as amended: private changes the caller's map in place, and only by
\* setting its nonce entry: from the clock read on, the map holds the entries
\* it was called with, other than one under the key nonce, and the entry
\* nonce -> the generated nonce, which is the nonce that is signed.
C6_OnlyNonceEntrySet ==
  \A t \in Tasks :
    (HasNonce(t) \/ HasBody(t)) =>
      /\ EntrySet(fr[t].params) =
           {e \in EntrySet(fr[t].arg) : e.k # K_nonce}
             \cup {[k |-> K_nonce, v |-> fr[t].nonce]}
      /\ Len(fr[t].params) = Cardinality(EntrySet(fr[t].params))
      /\ IsSome(fr[t].sign) =>
           Unwrap(fr[t].sign) =
             ApiSign(Unwrap(fr[t].secret), fr[t].path, fr[t].nonce, fr[t].body)

C6_Witness ==
  \E t \in Tasks :
    /\ pc[t] = "ret"
    /\ fr[t].ret = "Err"
    /\ Len(fr[t].arg) > 0
    /\ Len(fr[t].params) = Len(fr[t].arg) + 1

\* C7: with a secret that is no base64 the call panics at the decode and
\* nothing reaches the transport; a request is sent only once the secret is
\* decoded and the signature computed; the decode is tried once.
C7_NoSendWithoutSecret ==
  \A t \in Tasks :
    /\ ~B64Valid(account.secret) =>
         /\ wire = <<>>
         /\ fr[t].nsent = 0
         /\ pc[t] \notin {"send", "await", "ret"}
         /\ fr[t].decodes > 0 => (pc[t] = "panicked" /\ fr[t].ret = "Panic")
    /\ (fr[t].nsent > 0 \/ pc[t] \in {"send", "await"}) =>
         /\ B64Valid(account.secret)
         /\ fr[t].secret = Some(B64Decode(account.secret))
         /\ IsSome(fr[t].sign)
    /\ fr[t].decodes <= 1

C7_Witness ==
  \E t \in Tasks :
    /\ ~B64Valid(account.secret)
    /\ pc[t] = "panicked"
    /\ fr[t].decodes = 1
    /\ wire = <<>>

\* C8: the body is one key=value pair per entry, joined by "&" with no
\* separator before the first or after the last pair (n entries, n-1
\* separators); no entries give the empty string.
C8_BodyIsJoinedPairs ==
  /\ \A t \in Tasks :
       HasBody(t) =>
         LET items == Iter(fr[t].params, fr[t].seed)
         IN  /\ fr[t].body = JoinPairs(items)
             /\ Len(fr[t].body) = PairChars(items) + Len(items) - 1
             /\ EntrySet(items) = EntrySet(fr[t].params)
             /\ Len(items) = Len(fr[t].params)
  /\ \A s \in Seeds : EncodeBody(<<>>, s) = <<>>

C8_Witness ==
  \E t \in Tasks :
    /\ pc[t] = "send"
    /\ Len(fr[t].params) > 2
    /\ fr[t].seed > 0

\* C9: a call hands at most one request to the transport, and exactly one
\* once the signature is computed and sent; after a transport or status
\* failure the call returns Err and nothing is sent again.
C9_OneRequestPerCall ==
  \A t \in Tasks :
    /\ fr[t].nsent <= 1
    /\ Len(OnWire(t)) <= 1
    /\ pc[t] = "await" => (fr[t].nsent = 1 /\ Len(OnWire(t)) = 1)
    /\ pc[t] = "ret" => (fr[t].nsent = 1 /\ OnWire(t) = <<>>)
    /\ (pc[t] = "panicked" /\ IsSome(fr[t].sign)) => fr[t].nsent = 1
    /\ pc[t] \in {"private", "sign", "send"} => fr[t].nsent = 0

C9_Witness ==
  \E t \in Tasks :
    /\ pc[t] = "ret"
    /\ fr[t].ret = "Err"
    /\ fr[t].nsent = 1

\* the calls of one invocation of my_handler, in order
HandlerCalls ==
  <<<<S_AddOrder, S_SOLUSD>>, <<S_AddOrder, S_DOTUSD>>, <<S_Balance, <<>>>>>>

\* C10: my_handler calls AddOrder(SOLUSD), AddOrder(DOTUSD), Balance in this
\* order, each only after every earlier call returned Ok; after a call that
\* did not, it makes no further call; the 200 response comes after three
\* calls that returned Ok.
C10_HandlerCallOrder ==
  /\ Len(issued) <= Len(HandlerCalls)
  /\ issued = SubSeq(HandlerCalls, 1, Len(issued))
  /\ Len(issued) <= okCalls + 1
  /\ hpc = "panicked" => resp = 0
  /\ resp \in {0, 200}
  /\ resp = 200 => (okCalls = Len(HandlerCalls) /\ issued = HandlerCalls /\ hpc = "done")
  /\ \A i \in 1..Len(wire) :
       /\ issued # <<>>
       /\ wire[i].url = S_Host \o S_PrivatePrefix \o issued[Len(issued)][1]

C10_Witness == resp = 200 /\ okCalls = Len(HandlerCalls)

====
